---- MODULE Spec2Model ----
(***************************************************************************)
(* Heuristic schema-profiling engine of auto_meta: column profiling,       *)
(* primary-key identification, foreign-key inference and event-timestamp   *)
(* detection (src/profiler/profiling.py), as called on in-memory tables,   *)
(* and the classification graph that runs discovery, the decider and the   *)
(* validator (src/graph/classification_graph.py, src/main.py).             *)
(*                                                                         *)
(* Text is modelled as a sequence of one-character strings, so that        *)
(* lower(), substring tests, rstrip() and the regular expressions are      *)
(* computed and not assumed.  A cell of a column is Null or Some(v); the    *)
(* value of a numeric or date cell is held as its decimal text, so that    *)
(* cells of all storage types compare, and equal numbers are equal cells.  *)
(***************************************************************************)
EXTENDS Integers, Sequences, FiniteSets, TLC

VARIABLES
    dataframes,         \* table name -> table (main.py `dataframes`), read-only
    schema_reports,     \* table name -> outcome of get_smart_schema
    primary_keys,       \* table name -> list of column names
    foreign_keys,       \* table name -> list of suggestions of analyze_foreign_keys
    timestamp_columns,  \* table name -> result of detect_primary_event_timestamp
    simple_timestamps,  \* table name -> result of detect_timestamp_column
    node,               \* the node of the classification graph to run next, or "END"
    pc,                 \* the statement of discover_node to run next
    cursor,             \* the position in dataframes.items() of the loop at pc
    initial_candidates, \* discover_node: table name -> suggest_primary_keys(df)
    state,              \* ClassificationState: classifications,
                        \* validated_classifications, critique, retries, max_retries
    tables_to_classify, \* classify_node: the tables handed to the decider, last run
    result,             \* validate_node: <<>>, or <<the validator's last result>>
    validated_history   \* table name -> the classification it first had in
                        \* validated_classifications; a record of the run

\* the variables of the classification graph
graphVars == <<node, pc, cursor, initial_candidates, state, tables_to_classify,
               result, validated_history>>

vars == <<dataframes, schema_reports, primary_keys, foreign_keys,
          timestamp_columns, simple_timestamps, graphVars>>

-----------------------------------------------------------------------------
(* Text *)

UpperCase == <<"A","B","C","D","E","F","G","H","I","J","K","L","M",
               "N","O","P","Q","R","S","T","U","V","W","X","Y","Z">>

LowerCase == <<"a","b","c","d","e","f","g","h","i","j","k","l","m",
               "n","o","p","q","r","s","t","u","v","w","x","y","z">>

DigitChars == <<"0","1","2","3","4","5","6","7","8","9">>

Range(s) == {s[i] : i \in DOMAIN s}

LowerChar(c) ==
    IF \E i \in DOMAIN UpperCase : UpperCase[i] = c
    THEN LowerCase[CHOOSE i \in DOMAIN UpperCase : UpperCase[i] = c]
    ELSE c

\* str.lower()
Lower(s) == [i \in DOMAIN s |-> LowerChar(s[i])]

\* `sub in s`
Contains(sub, s) ==
    \E i \in 0..(Len(s) - Len(sub)) : SubSeq(s, i + 1, i + Len(sub)) = sub

\* any(k in s for k in keywords)
ContainsAny(keywords, s) == \E k \in keywords : Contains(k, s)

\* str.rstrip(ch): every trailing ch is removed
RECURSIVE RStrip(_, _)
RStrip(s, ch) ==
    IF Len(s) > 0 /\ s[Len(s)] = ch THEN RStrip(SubSeq(s, 1, Len(s) - 1), ch) ELSE s

IsDigit(c) == c \in Range(DigitChars)
IsHexLower(c) == IsDigit(c) \/ c \in {"a","b","c","d","e","f"}
\* \w on the ASCII characters the model uses
IsWord(c) == IsDigit(c) \/ c \in Range(LowerCase) \/ c \in Range(UpperCase) \/ c = "_"
IsWordDotDash(c) == IsWord(c) \/ c = "." \/ c = "-"

\* decimal digits of a natural number
RECURSIVE Digits(_)
Digits(n) == IF n < 10 THEN <<DigitChars[n + 1]>>
             ELSE Digits(n \div 10) \o <<DigitChars[(n % 10) + 1]>>

TwoDigits(n) == <<DigitChars[((n \div 10) % 10) + 1], DigitChars[(n % 10) + 1]>>

-----------------------------------------------------------------------------
(* Cells, columns, tables *)

Null == <<>>
Some(v) == <<v>>
IsNull(cell) == cell = Null

\* df.height
Height(df) == IF df.columns = <<>> THEN 0 ELSE Len(df.data[df.columns[1]])

\* Series.n_unique(): the number of distinct cells, null counted as one
NUnique(series) == Cardinality(Range(series))

\* Series.null_count()
NullCount(series) == Cardinality({i \in DOMAIN series : IsNull(series[i])})

\* Series.drop_nulls()
DropNulls(series) == SelectSeq(series, LAMBDA cell : ~IsNull(cell))

\* Series.head(n)
HeadN(series, n) == SubSeq(series, 1, IF Len(series) < n THEN Len(series) ELSE n)

IsNumeric(dtype) == dtype \in {"Int32", "Int64", "Float64"}
IsTemporal(dtype) == dtype \in {"Date", "Datetime"}

\* A Python dict is a sequence of <<key, value>> items in insertion order.
EmptyDict == <<>>

Keys(d) == [i \in DOMAIN d |-> d[i].key]

KeySet(d) == {d[i].key : i \in DOMAIN d}

Has(d, key) == key \in KeySet(d)

\* d[key]
Get(d, key) == d[CHOOSE i \in DOMAIN d : d[i].key = key].value

\* d[key] = value
Put(d, key, value) ==
    IF Has(d, key)
    THEN [i \in DOMAIN d |-> IF d[i].key = key THEN [key |-> key, value |-> value] ELSE d[i]]
    ELSE Append(d, [key |-> key, value |-> value])

-----------------------------------------------------------------------------
(* SmartSchemaDetector: profiling.py 8..114 *)

SampleSize == 100
CategoricalAbsolute == 50
\* n_unique / row_count < 0.1 is computed as n_unique * 10 < row_count
CategoricalRatioDen == 10

\* `$` matches at the end of the text or before a newline that ends it
DollarBodies(s) ==
    {s} \cup (IF Len(s) > 0 /\ s[Len(s)] = "\n" THEN {SubSeq(s, 1, Len(s) - 1)} ELSE {})

\* ^[0-9a-f]{8}-[0-9a-f]{4}-[0-9a-f]{4}-[0-9a-f]{4}-[0-9a-f]{12}
BodyUUID(s) ==
    /\ Len(s) = 36
    /\ \A i \in 1..36 : IF i \in {9, 14, 19, 24} THEN s[i] = "-" ELSE IsHexLower(s[i])

\* ^[\w\.-]+@[\w\.-]+\.\w+
BodyEmail(s) ==
    \E i \in 2..Len(s) : \E j \in (i + 2)..(Len(s) - 1) :
        /\ s[i] = "@"
        /\ s[j] = "."
        /\ \A k \in 1..(i - 1) : IsWordDotDash(s[k])
        /\ \A k \in (i + 1)..(j - 1) : IsWordDotDash(s[k])
        /\ \A k \in (j + 1)..Len(s) : IsWord(s[k])

\* ^\d{4}-\d{2}-\d{2}
BodyDateISO(s) ==
    /\ Len(s) = 10
    /\ \A i \in 1..10 : IF i \in {5, 8} THEN s[i] = "-" ELSE IsDigit(s[i])

\* ^\d+
BodyNumeric(s) == Len(s) > 0 /\ \A i \in 1..Len(s) : IsDigit(s[i])

\* the `patterns` dict, in its insertion order
PatternNames == <<"UUID", "Email", "Date_ISO", "Numeric_String">>

\* bool(re.match(pattern, str(x).lower()))
ReMatch(type_name, x) ==
    \E b \in DollarBodies(Lower(x)) :
        CASE type_name = "UUID" -> BodyUUID(b)
          [] type_name = "Email" -> BodyEmail(b)
          [] type_name = "Date_ISO" -> BodyDateISO(b)
          [] type_name = "Numeric_String" -> BodyNumeric(b)

\* matches.all() over the sample
SampleMatches(type_name, sample) ==
    \A i \in DOMAIN sample : ReMatch(type_name, sample[i][1])

MatchedPatterns(sample) == {i \in DOMAIN PatternNames : SampleMatches(PatternNames[i], sample)}

Min(S) == CHOOSE x \in S : \A y \in S : x <= y

\* SmartSchemaDetector._analyze_string_content
AnalyzeStringContent(series, n_unique, row_count) ==
    LET sample == HeadN(DropNulls(series), SampleSize)
    IN  IF sample = <<>> THEN "EmptyString"
        ELSE IF MatchedPatterns(sample) # {} THEN PatternNames[Min(MatchedPatterns(sample))]
        ELSE IF n_unique = row_count THEN "Text (Unique ID?)"
        ELSE "Free Text"

\* semantic type of one column: profiling.py 28..45
SemanticType(dtype, series, n_unique, row_count) ==
    IF dtype = "Utf8" THEN AnalyzeStringContent(series, n_unique, row_count)
    ELSE IF n_unique * CategoricalRatioDen < row_count \/ n_unique < CategoricalAbsolute
         THEN "Categorical"
    ELSE dtype

\* is_pk_candidate without the null test
IsPkCandidateIgnoringNulls(n_null, n_unique, row_count) == n_unique = row_count

\* is_pk_candidate: profiling.py 33..36
IsPkCandidate(n_null, n_unique, row_count) == n_null = 0 /\ n_unique = row_count

\* one entry of schema_report; completeness = 1 - n_null / row_count is kept
\* as the fraction <<row_count - n_null, row_count>>
ColumnProfile(df, col_name) ==
    LET series == df.data[col_name]
        dtype == df.dtype[col_name]
        n_unique == NUnique(series)
        n_null == NullCount(series)
        row_count == Height(df)
        is_pk == IsPkCandidate(n_null, n_unique, row_count)
    IN  [ column |-> col_name,
          storage_type |-> dtype,
          semantic_type |-> SemanticType(dtype, series, n_unique, row_count),
          is_pk_candidate |-> is_pk,
          completeness |-> <<row_count - n_null, row_count>>,
          cardinality |-> n_unique,
          notes |-> IF is_pk THEN "PK Candidate" ELSE "" ]

\* SmartSchemaDetector.get_smart_schema.  The report keeps the dict's
\* insertion order.  With at least one column and no row, the division
\* n_unique / self.row_count of line 40 raises ZeroDivisionError.
GetSmartSchemaOf(df) ==
    IF df.columns # <<>> /\ Height(df) = 0
    THEN [raised |-> "ZeroDivisionError", report |-> <<>>]
    ELSE [raised |-> "",
          report |-> [i \in DOMAIN df.columns |-> ColumnProfile(df, df.columns[i])]]

\* the sort key with the name tested as written, not lower-cased
PkSortKeyCaseSensitive(entry) ==
    (IF ~Contains(<<"i","d">>, entry.column) THEN 2 ELSE 0)
    + (IF entry.storage_type = "Utf8" THEN 1 ELSE 0)

\* the sort key of identify_primary_key: (no "id" in the name, storage is Utf8),
\* False < True, compared lexicographically
PkSortKey(entry) ==
    (IF ~Contains(<<"i","d">>, Lower(entry.column)) THEN 2 ELSE 0)
    + (IF entry.storage_type = "Utf8" THEN 1 ELSE 0)

\* candidates.sort(key=...): a stable sort, by insertion
RECURSIVE InsertByKey(_, _)
InsertByKey(sorted, e) ==
    IF sorted = <<>> THEN <<e>>
    ELSE IF PkSortKey(sorted[Len(sorted)]) <= PkSortKey(e) THEN Append(sorted, e)
    ELSE Append(InsertByKey(SubSeq(sorted, 1, Len(sorted) - 1), e), sorted[Len(sorted)])

RECURSIVE StableSort(_)
StableSort(s) ==
    IF s = <<>> THEN <<>>
    ELSE InsertByKey(StableSort(SubSeq(s, 1, Len(s) - 1)), s[Len(s)])

\* "Composite Key Analysis Required"
SentinelName ==
    <<"C","o","m","p","o","s",
    "i","t","e"," ","K","e","y"," ","A","n","a","l","y","s","i","s"," ","R","e","q","u","i","r","e","d">>

CompositeSentinel == <<SentinelName>>

\* identify_primary_key without the sort: the first candidate of the report
IdentifyPrimaryKeyUnsorted(schema_report) ==
    LET candidates == SelectSeq(schema_report, LAMBDA e : e.is_pk_candidate)
    IN  IF candidates # <<>> THEN <<candidates[1].column>> ELSE CompositeSentinel

\* SmartSchemaDetector.identify_primary_key
IdentifyPrimaryKeyOf(schema_report) ==
    LET candidates == SelectSeq(schema_report, LAMBDA e : e.is_pk_candidate)
    IN  IF candidates # <<>>
        THEN <<StableSort(candidates)[1].column>>
        ELSE CompositeSentinel

-----------------------------------------------------------------------------
(* analyze_foreign_keys: profiling.py 158..265 *)

\* threshold: float = 0.95, as a percentage
ThresholdPct == 95
\* name scores 1.0, 0.9, 0.5, in tenths
ScoreExact == 10
ScoreConvention == 9
ScoreSubstring == 5
\* `name_score < 0.1`, in tenths
ScoreSkipBelow == 1
\* `name_score > 0.8`, in tenths
ScoreStrongAbove == 8

\* the name score with the substring rule tried before the convention rule
NameScoreSubstringFirst(col_name, other_table, pk) ==
    LET col_lower == Lower(col_name)
        table_lower == Lower(other_table)
        pk_lower == Lower(pk)
    IN  IF col_lower = pk_lower THEN ScoreExact
        ELSE IF Contains(pk_lower, col_lower) THEN ScoreSubstring
        ELSE IF Contains(RStrip(table_lower, "s"), col_lower)
                /\ Contains(<<"i","d">>, col_lower) THEN ScoreConvention
        ELSE 0

\* the name score of (column, other table, primary-key column), in tenths: 196..213
NameScore(col_name, other_table, pk) ==
    LET col_lower == Lower(col_name)
        table_lower == Lower(other_table)
        pk_lower == Lower(pk)
    IN  IF col_lower = pk_lower THEN ScoreExact
        ELSE IF Contains(RStrip(table_lower, "s"), col_lower)
                /\ Contains(<<"i","d">>, col_lower) THEN ScoreConvention
        ELSE IF Contains(pk_lower, col_lower) THEN ScoreSubstring
        ELSE 0

\* the type gate with `or` in place of `and` in the numeric special case
TypesCompatibleEitherNumeric(col_dtype, target_dtype) ==
    col_dtype = target_dtype \/ (IsNumeric(col_dtype) \/ IsNumeric(target_dtype))

\* the type gate: 191..194
TypesCompatible(col_dtype, target_dtype) ==
    col_dtype = target_dtype \/ (IsNumeric(col_dtype) /\ IsNumeric(target_dtype))

\* Expr.unique(): the distinct cells, null kept as one of them
RECURSIVE Unique(_)
Unique(series) ==
    IF series = <<>> THEN <<>>
    ELSE LET front == Unique(SubSeq(series, 1, Len(series) - 1))
             last == series[Len(series)]
         IN  IF last \in Range(front) THEN front ELSE Append(front, last)

\* DataFrame.join(..., how="inner").height: the pairs of a left row and a
\* right row with equal keys; a null key matches nothing
InnerJoinHeight(left, right) ==
    Cardinality({ij \in (DOMAIN left) \X (DOMAIN right) :
                    left[ij[1]] # Null /\ left[ij[1]] = right[ij[2]]})

\* overlap_pct of a join with the parent column as it is, not its distinct values
OverlapAgainstAllRows(child_values, parent) ==
    <<InnerJoinHeight(child_values, parent), Len(child_values)>>

\* overlap_pct as the fraction <<join height, child_values.height>>: 223..237
Overlap(child_values, parent) ==
    <<InnerJoinHeight(child_values, Unique(parent)), Len(child_values)>>

\* round(x, 2) of x = 100 * num / den, in hundredths: to the nearest, ties to even
RoundHundredths(num, den) ==
    LET scaled == num * 10000
        q == scaled \div den
        r == scaled % den
    IN  IF 2 * r > den \/ (2 * r = den /\ q % 2 = 1) THEN q + 1 ELSE q

\* f"{other_table}.{pk}"
Reference(other_table, pk) == other_table \o <<".">> \o pk

\* the final decision with the dirty-data branch taken from an overlap of 0.5 on
DecisionDirtyFromHalf(col_name, other_table, pk, name_score, overlap) ==
    IF overlap[1] * 100 >= ThresholdPct * overlap[2]
    THEN << [ column |-> col_name,
              references |-> Reference(other_table, pk),
              confidence |-> IF overlap[1] = overlap[2] THEN "High" ELSE "Medium",
              overlap_percent |-> RoundHundredths(overlap[1], overlap[2]),
              match_reason |-> IF name_score = ScoreExact THEN "Exact Name"
                               ELSE "Pattern Match" ] >>
    ELSE IF 2 * overlap[1] >= overlap[2] /\ name_score > ScoreStrongAbove
    THEN << [ column |-> col_name,
              references |-> Reference(other_table, pk),
              confidence |-> "Low (Dirty Data?)",
              overlap_percent |-> RoundHundredths(overlap[1], overlap[2]),
              match_reason |-> "Strong Name Match, Partial Data" ] >>
    ELSE <<>>

\* the final decision with the acceptance threshold exclusive
DecisionThresholdExclusive(col_name, other_table, pk, name_score, overlap) ==
    IF overlap[1] * 100 > ThresholdPct * overlap[2]
    THEN << [ column |-> col_name,
              references |-> Reference(other_table, pk),
              confidence |-> IF overlap[1] = overlap[2] THEN "High" ELSE "Medium",
              overlap_percent |-> RoundHundredths(overlap[1], overlap[2]),
              match_reason |-> IF name_score = ScoreExact THEN "Exact Name"
                               ELSE "Pattern Match" ] >>
    ELSE IF 2 * overlap[1] > overlap[2] /\ name_score > ScoreStrongAbove
    THEN << [ column |-> col_name,
              references |-> Reference(other_table, pk),
              confidence |-> "Low (Dirty Data?)",
              overlap_percent |-> RoundHundredths(overlap[1], overlap[2]),
              match_reason |-> "Strong Name Match, Partial Data" ] >>
    ELSE <<>>

\* the final decision for one triple, as a list of zero or one suggestion: 239..263
Decision(col_name, other_table, pk, name_score, overlap) ==
    IF overlap[1] * 100 >= ThresholdPct * overlap[2]
    THEN << [ column |-> col_name,
              references |-> Reference(other_table, pk),
              confidence |-> IF overlap[1] = overlap[2] THEN "High" ELSE "Medium",
              overlap_percent |-> RoundHundredths(overlap[1], overlap[2]),
              match_reason |-> IF name_score = ScoreExact THEN "Exact Name"
                               ELSE "Pattern Match" ] >>
    ELSE IF 2 * overlap[1] > overlap[2] /\ name_score > ScoreStrongAbove
    THEN << [ column |-> col_name,
              references |-> Reference(other_table, pk),
              confidence |-> "Low (Dirty Data?)",
              overlap_percent |-> RoundHundredths(overlap[1], overlap[2]),
              match_reason |-> "Strong Name Match, Partial Data" ] >>
    ELSE <<>>

\* the body of the innermost loop for one (col_name, other_table, pk): 186..263
SuggestionsForTriple(df, col_name, other_table, target_df, pk) ==
    LET name_score == NameScore(col_name, other_table, pk)
        child_values == DropNulls(df.data[col_name])
    IN  IF ~TypesCompatible(df.dtype[col_name], target_df.dtype[pk]) THEN <<>>
        ELSE IF name_score < ScoreSkipBelow THEN <<>>
        ELSE IF child_values = <<>> THEN <<>>
        ELSE Decision(col_name, other_table, pk, name_score,
                      Overlap(child_values, target_df.data[pk]))

\* concatenation of f(1), ..., f(n), each a sequence
RECURSIVE Concat(_, _)
Concat(f, n) == IF n = 0 THEN <<>> ELSE Concat(f, n - 1) \o f[n]

\* the (col_name, other_table, pk) triples in the order of the three loops: 176..186
Triples(df, current_table_name, primary_keys_arg) ==
    LET current_pks == IF Has(primary_keys_arg, current_table_name)
                       THEN Get(primary_keys_arg, current_table_name) ELSE <<>>
        candidate_cols == SelectSeq(df.columns, LAMBDA c : c \notin Range(current_pks))
        others == SelectSeq(primary_keys_arg, LAMBDA item : item.key # current_table_name)
        perOther == [o \in DOMAIN others |->
                        [k \in DOMAIN others[o].value |->
                            [other_table |-> others[o].key, pk |-> others[o].value[k]]]]
        allOthers == Concat(perOther, Len(others))
    IN  Concat([c \in DOMAIN candidate_cols |->
                   [k \in DOMAIN allOthers |->
                       [col_name |-> candidate_cols[c],
                        other_table |-> allOthers[k].other_table,
                        pk |-> allOthers[k].pk]]],
               Len(candidate_cols))

\* analyze_foreign_keys.  target_df[pk] of line 187 raises ColumnNotFoundError
\* when pk is no column of the other table; nothing is returned then.
AnalyzeForeignKeysOf(df, current_table_name, dataframes_arg, primary_keys_arg) ==
    LET triples == Triples(df, current_table_name, primary_keys_arg)
    IN  IF \E i \in DOMAIN triples :
              triples[i].pk \notin Range(Get(dataframes_arg, triples[i].other_table).columns)
        THEN [raised |-> "ColumnNotFoundError", suggestions |-> <<>>]
        ELSE [raised |-> "",
              suggestions |->
                 Concat([i \in DOMAIN triples |->
                            SuggestionsForTriple(df, triples[i].col_name,
                                triples[i].other_table,
                                Get(dataframes_arg, triples[i].other_table),
                                triples[i].pk)],
                        Len(triples))]

-----------------------------------------------------------------------------
(* detect_timestamp_column: profiling.py 268..328 *)

\* 282
SimpleNameKeywords ==
    { <<"d","a","t","e">>,
      <<"t","i","m","e">>,
      <<"t","i","m","e","s","t","a","m","p">>,
      <<"c","r","e","a","t","e","d">>,
      <<"u","p","d","a","t","e","d">> }

\* 301
SimpleEventKeywords ==
    { <<"c","r","e","a","t","e","d">>,
      <<"t","r","a","n","s","a","c","t","i","o","n">>,
      <<"o","r","d","e","r">>,
      <<"e","v","e","n","t","_","d","a","t","e">>,
      <<"t","i","m","e","s","t","a","m","p">> }

\* 310
SimpleGenericKeywords ==
    { <<"d","a","t","e">>,
      <<"t","i","m","e">> }

\* 314
SimpleAttributeKeywords ==
    { <<"b","i","r","t","h">>,
      <<"d","o","b">>,
      <<"j","o","i","n">>,
      <<"s","t","a","r","t">>,
      <<"e","n","d">> }

\* 318
SimpleLowKeywords ==
    { <<"u","p","d","a","t","e","d">>,
      <<"m","o","d","i","f","i","e","d">> }

\* the index of the last maximum of a non-empty list of scores
LastMax(scores) ==
    CHOOSE i \in DOMAIN scores :
        /\ \A j \in DOMAIN scores : scores[j] <= scores[i]
        /\ \A j \in (i + 1)..Len(scores) : scores[j] < scores[i]

\* the index of the first maximum of a non-empty list of scores:
\* max(scores, key=scores.get) over a dict in insertion order
FirstMax(scores) ==
    CHOOSE i \in DOMAIN scores :
        /\ \A j \in DOMAIN scores : scores[j] <= scores[i]
        /\ \A j \in 1..(i - 1) : scores[j] < scores[i]

\* the candidates of detect_primary_event_timestamp, gathered for
\* detect_timestamp_column
SimpleCandidatesAsDataPhysics(df) ==
    SelectSeq(df.columns,
              LAMBDA c : \/ IsTemporal(df.dtype[c])
                         \/ (df.dtype[c] = "Utf8"
                             /\ ContainsAny({<<"d","a","t","e">>, <<"t","i","m","e">>,
                                             <<"t","s">>, <<"a","t">>, <<"d","a","y">>},
                                            Lower(c))))

\* 273..284: the Date/Datetime columns, or else the columns named like one
SimpleCandidates(df) ==
    LET typed == SelectSeq(df.columns, LAMBDA c : IsTemporal(df.dtype[c]))
    IN  IF typed # <<>> THEN typed
        ELSE SelectSeq(df.columns,
                       LAMBDA c : ContainsAny(SimpleNameKeywords, Lower(c)))

\* 295..321
SimpleScore(col, table_name) ==
    LET col_lower == Lower(col)
    IN  (IF ContainsAny(SimpleEventKeywords, col_lower) THEN 3 ELSE 0)
        + (IF Contains(Lower(table_name), col_lower) THEN 2 ELSE 0)
        + (IF ContainsAny(SimpleGenericKeywords, col_lower) THEN 1 ELSE 0)
        - (IF ContainsAny(SimpleAttributeKeywords, col_lower) THEN 2 ELSE 0)
        - (IF ContainsAny(SimpleLowKeywords, col_lower) THEN 1 ELSE 0)

\* detect_timestamp_column; "" is the empty text
DetectTimestampColumnOf(df, table_name) ==
    LET candidates == SimpleCandidates(df)
        scores == [i \in DOMAIN candidates |-> SimpleScore(candidates[i], table_name)]
    IN  IF candidates = <<>> THEN <<>>
        ELSE IF Len(candidates) = 1 THEN candidates[1]
        ELSE IF scores[FirstMax(scores)] > 0 THEN candidates[FirstMax(scores)]
        ELSE <<>>

-----------------------------------------------------------------------------
(* detect_primary_event_timestamp: profiling.py 331..447 *)

\* 351
PhysicsNameKeywords ==
    { <<"d","a","t","e">>,
      <<"t","i","m","e">>,
      <<"t","s">>,
      <<"a","t">>,
      <<"d","a","y">> }

\* 404
PhysicsCreationKeywords ==
    { <<"c","r","e","a","t","e","d","_","a","t">>,
      <<"r","e","c","o","r","d","_","d","a","t","e">>,
      <<"i","n","s","e","r","t","i","o","n","_","d","a","t","e">>,
      <<"e","v","e","n","t","_","t","i","m","e">> }

\* 421..430
PhysicsAttributeKeywords ==
    { <<"b","i","r","t","h">>,
      <<"d","o","b">>,
      <<"e","x","p","i","r","y">>,
      <<"e","x","p","i","r","e">>,
      <<"d","u","e">>,
      <<"s","t","a","r","t">>,
      <<"e","n","d">>,
      <<"v","a","l","i","d">> }

\* `null_ratio > 0.3` is computed as n_nulls * 10 > 3 * row_count
NullVetoTenths == 3
\* `row_count > 100`
GranularityRows == 100
VetoScore == -100

\* 345..352: Date/Datetime columns and Utf8 columns named like one
PotentialCols(df) ==
    SelectSeq(df.columns,
              LAMBDA c : \/ IsTemporal(df.dtype[c])
                         \/ (df.dtype[c] = "Utf8"
                             /\ ContainsAny(PhysicsNameKeywords, Lower(c))))

\* 392..436: the naming heuristics
PhysicsNameScore(col, table_name) ==
    LET col_lower == Lower(col)
        root_table_name == RStrip(Lower(table_name), "s")
    IN  (IF \/ Contains(root_table_name \o <<"_","d","a","t","e">>, col_lower)
            \/ Contains(root_table_name \o <<"_","t","i","m","e">>, col_lower) THEN 5 ELSE 0)
        + (IF ContainsAny(PhysicsCreationKeywords, col_lower) THEN 4 ELSE 0)
        + (IF Contains(<<"t","i","m","e","s","t","a","m","p">>, col_lower) \/ Contains(<<"d","a","t","e","t","i","m","e">>, col_lower)
           THEN 3 ELSE 0)
        - (IF Contains(<<"u","p","d","a","t","e","d">>, col_lower) \/ Contains(<<"m","o","d","i","f","i","e","d">>, col_lower)
           THEN 1 ELSE 0)
        - (IF ContainsAny(PhysicsAttributeKeywords, col_lower) THEN 10 ELSE 0)
        - (IF \/ Contains(<<"n","e","x","t">>, col_lower) \/ Contains(<<"s","c","h","e","d","u","l","e">>, col_lower)
              \/ Contains(<<"f","o","r","e","c","a","s","t">>, col_lower) THEN 5 ELSE 0)

\* 367..438: the score of one potential column
PhysicsScore(df, col, table_name) ==
    LET row_count == Height(df)
        n_nulls == NullCount(df.data[col])
        n_unique == NUnique(df.data[col])
    IN  IF n_nulls * 10 > NullVetoTenths * row_count THEN VetoScore
        ELSE (IF row_count > GranularityRows /\ 2 * n_unique > row_count THEN 2 ELSE 0)
             + PhysicsNameScore(col, table_name)

\* detect_primary_event_timestamp; "" is the empty text
DetectPrimaryEventTimestampOf(df, table_name) ==
    LET potential_cols == PotentialCols(df)
        valid == SelectSeq(potential_cols, LAMBDA c : PhysicsScore(df, c, table_name) > 0)
        scores == [i \in DOMAIN valid |-> PhysicsScore(df, valid[i], table_name)]
    IN  IF Height(df) = 0 THEN <<>>
        ELSE IF potential_cols = <<>> THEN <<>>
        ELSE IF valid = <<>> THEN <<>>
        ELSE valid[FirstMax(scores)]

-----------------------------------------------------------------------------
(* suggest_primary_keys, suggest_foreign_keys: profiling.py 127..155 *)

\* Series.is_unique().all(): no cell, a null included, occurs twice
IsUniqueAll(series) == \A i, j \in DOMAIN series : i # j => series[i] # series[j]

\* suggest_primary_keys
SuggestPrimaryKeysOf(df) ==
    SelectSeq(df.columns,
              LAMBDA c : /\ IsUniqueAll(df.data[c])
                         /\ NullCount(df.data[c]) = 0
                         /\ Contains(<<"i","d">>, Lower(c)))

\* df[col_name].is_in(other_df[pk]).all(): is_in of a null cell is null, and
\* all() passes over nulls
IsInAll(series, other) ==
    \A i \in DOMAIN series : series[i] = Null \/ series[i] \in Range(other)

\* f"{col_name} -> {other_table}.{pk}"
ForeignKeyText(col_name, other_table, pk) ==
    col_name \o <<" ","-",">"," ">> \o other_table \o <<".">> \o pk

\* suggest_foreign_keys: its three loops are those of analyze_foreign_keys.
\* other_df[pk] of line 153 raises ColumnNotFoundError when a pk of the same
\* name in lower case is no column of the other table.
SuggestForeignKeysOf(df, table_name, primary_keys_arg, dataframes_arg) ==
    LET triples == Triples(df, table_name, primary_keys_arg)
        named == SelectSeq(triples, LAMBDA tr : Lower(tr.col_name) = Lower(tr.pk))
        held == SelectSeq(named,
                    LAMBDA tr : IsInAll(df.data[tr.col_name],
                                        Get(dataframes_arg, tr.other_table).data[tr.pk]))
    IN  IF \E i \in DOMAIN named :
              named[i].pk \notin Range(Get(dataframes_arg, named[i].other_table).columns)
        THEN [raised |-> "ColumnNotFoundError", suggested_fks |-> <<>>]
        ELSE [raised |-> "",
              suggested_fks |->
                 [i \in DOMAIN held |->
                     ForeignKeyText(held[i].col_name, held[i].other_table, held[i].pk)]]

-----------------------------------------------------------------------------
(* discover_node: classification_graph.py 24..79 *)

\* 49..59: another table holds the column with more distinct values
IsLikelyForeignKey(dataframes_arg, table_name, pk_candidate) ==
    \E i \in DOMAIN dataframes_arg :
        /\ dataframes_arg[i].key # table_name
        /\ pk_candidate \in Range(dataframes_arg[i].value.columns)
        /\ NUnique(dataframes_arg[i].value.data[pk_candidate])
              > NUnique(Get(dataframes_arg, table_name).data[pk_candidate])

\* 43..64: the loop over the first k candidates of a table
RECURSIVE RefineCandidates(_, _, _, _, _)
RefineCandidates(all_primary_keys, dataframes_arg, table_name, candidates, k) ==
    IF k = 0 THEN [all_primary_keys |-> all_primary_keys, refined_pks |-> <<>>]
    ELSE LET before == RefineCandidates(all_primary_keys, dataframes_arg, table_name,
                                        candidates, k - 1)
             pk_candidate == candidates[k]
         IN  IF IsLikelyForeignKey(dataframes_arg, table_name, pk_candidate)
             THEN [all_primary_keys |->
                      Put(before.all_primary_keys, table_name,
                          SelectSeq(candidates, LAMBDA c : c # pk_candidate)),
                   refined_pks |-> before.refined_pks]
             ELSE [all_primary_keys |-> before.all_primary_keys,
                   refined_pks |-> Append(before.refined_pks, pk_candidate)]

\* one iteration of the loop of 36..67 that gives a table without candidates
\* no entry
RefineTableSkippingEmpty(all_primary_keys, dataframes_arg, table_name, candidates) ==
    LET after == RefineCandidates(all_primary_keys, dataframes_arg, table_name,
                                  candidates, Len(candidates))
    IN  IF candidates = <<>> THEN all_primary_keys
        ELSE IF after.refined_pks # <<>>
             THEN Put(after.all_primary_keys, table_name, after.refined_pks)
             ELSE after.all_primary_keys

\* 36..67: one iteration of the loop over initial_candidates.items()
RefineTableOf(all_primary_keys, dataframes_arg, table_name, candidates) ==
    LET after == RefineCandidates(all_primary_keys, dataframes_arg, table_name,
                                  candidates, Len(candidates))
    IN  IF candidates = <<>> THEN Put(all_primary_keys, table_name, <<>>)
        ELSE IF after.refined_pks # <<>>
             THEN Put(after.all_primary_keys, table_name, after.refined_pks)
             ELSE after.all_primary_keys

-----------------------------------------------------------------------------
(* classify_node, validate_node, should_continue: classification_graph.py  *)
(* 81..163; the initial state of main.py 40..47                            *)

\* "max_retries": 3
DefaultMaxRetries == 3

\* the keys of ClassificationState the loop reads and writes; a key that is
\* absent at the start reads as its empty default
InitialState(max_retries) ==
    [ classifications |-> EmptyDict,
      validated_classifications |-> EmptyDict,
      critique |-> <<>>,
      retries |-> 0,
      max_retries |-> max_retries ]

\* dict.update: d with the items of e, in the order of e
RECURSIVE Update(_, _)
Update(d, e) ==
    IF e = <<>> THEN d
    ELSE Put(Update(d, SubSeq(e, 1, Len(e) - 1)), e[Len(e)].key, e[Len(e)].value)

\* 95
TablesToClassify(dataframes_arg, validated_classifications) ==
    SelectSeq(Keys(dataframes_arg), LAMBDA name : ~Has(validated_classifications, name))

\* classify_node; decided[name] is what classify_table returns for the table
ClassifyOf(st, dataframes_arg, decided) ==
    LET to_classify == TablesToClassify(dataframes_arg, st.validated_classifications)
        classifications == [i \in DOMAIN to_classify |->
                               [key |-> to_classify[i], value |-> decided[to_classify[i]]]]
    IN  [st EXCEPT !.classifications = Update(classifications, st.validated_classifications),
                   !.retries = st.retries + 1]

\* f"- {c.issue} for table {c.table_name}. Reasoning: {c.reasoning}\n"
CritiqueLine(c) ==
    <<"-"," ">> \o c.issue \o <<" ","f","o","r"," ","t","a","b","l","e"," ">> \o c.table_name
       \o <<"."," ","R","e","a","s","o","n","i","n","g",":"," ">> \o c.reasoning \o <<"\n">>

\* 135..141
CritiqueStr(critiques) ==
    Concat([i \in DOMAIN critiques |-> CritiqueLine(critiques[i])], Len(critiques))

\* validate_node, on the result of validator_agent.validate
ValidateOf(st, res) ==
    IF ~res.is_valid
    THEN LET failed_tables == {res.critiques[i].table_name : i \in DOMAIN res.critiques}
         IN  [st EXCEPT !.critique = CritiqueStr(res.critiques),
                        !.validated_classifications =
                            SelectSeq(st.classifications,
                                      LAMBDA item : item.key \notin failed_tables)]
    ELSE [st EXCEPT !.critique = <<>>,
                    !.validated_classifications = st.classifications]

\* should_continue with `retries > max_retries`
ShouldContinueAfterMax(st) ==
    IF st.critique # <<>>
    THEN IF st.retries > st.max_retries THEN "END" ELSE "classify"
    ELSE "END"

\* should_continue
ShouldContinueOf(st) ==
    IF st.critique # <<>>
    THEN IF st.retries >= st.max_retries THEN "END" ELSE "classify"
    ELSE "END"

\* the graph is built and not yet invoked
GraphNotStarted ==
    /\ node = "discover"
    /\ pc = "initial_candidates"
    /\ cursor = 1
    /\ initial_candidates = EmptyDict
    /\ state = InitialState(DefaultMaxRetries)
    /\ tables_to_classify = <<>>
    /\ result = <<>>
    /\ validated_history = EmptyDict

-----------------------------------------------------------------------------
(* Operations on the state *)

\* detector = SmartSchemaDetector(df); detector.get_smart_schema()
GetSmartSchema(t) ==
    /\ Has(dataframes, t)
    /\ ~Has(schema_reports, t)
    /\ schema_reports' = Put(schema_reports, t, GetSmartSchemaOf(Get(dataframes, t)))
    /\ UNCHANGED <<dataframes, primary_keys, foreign_keys, timestamp_columns,
                   simple_timestamps>>
    /\ UNCHANGED graphVars

\* detector.identify_primary_key(schema_report), on a report that was returned
IdentifyPrimaryKey(t) ==
    /\ Has(schema_reports, t)
    /\ Get(schema_reports, t).raised = ""
    /\ ~Has(primary_keys, t)
    /\ primary_keys' = Put(primary_keys, t,
                           IdentifyPrimaryKeyOf(Get(schema_reports, t).report))
    /\ UNCHANGED <<dataframes, schema_reports, foreign_keys, timestamp_columns,
                   simple_timestamps>>
    /\ UNCHANGED graphVars

\* analyze_foreign_keys(df, name, dataframes, primary_keys), once the
\* primary-key map has an entry for every table
AnalyzeForeignKeys(t) ==
    /\ Has(dataframes, t)
    /\ KeySet(primary_keys) = KeySet(dataframes)
    /\ ~Has(foreign_keys, t)
    /\ foreign_keys' = Put(foreign_keys, t,
                           AnalyzeForeignKeysOf(Get(dataframes, t), t, dataframes, primary_keys))
    /\ UNCHANGED <<dataframes, schema_reports, primary_keys, timestamp_columns,
                   simple_timestamps>>
    /\ UNCHANGED graphVars

\* detect_primary_event_timestamp(df, table_name)
DetectPrimaryEventTimestamp(t) ==
    /\ Has(dataframes, t)
    /\ ~Has(timestamp_columns, t)
    /\ timestamp_columns' = Put(timestamp_columns, t,
                                DetectPrimaryEventTimestampOf(Get(dataframes, t), t))
    /\ UNCHANGED <<dataframes, schema_reports, primary_keys, foreign_keys,
                   simple_timestamps>>
    /\ UNCHANGED graphVars

\* detect_timestamp_column(df, table_name)
DetectTimestampColumn(t) ==
    /\ Has(dataframes, t)
    /\ ~Has(simple_timestamps, t)
    /\ simple_timestamps' = Put(simple_timestamps, t,
                                DetectTimestampColumnOf(Get(dataframes, t), t))
    /\ UNCHANGED <<dataframes, schema_reports, primary_keys, foreign_keys,
                   timestamp_columns>>
    /\ UNCHANGED graphVars

-----------------------------------------------------------------------------
(* The nodes of the classification graph: classification_graph.py 165..179 *)

\* after the iteration at `cursor` of a loop over dataframes.items()
LoopPc(next) == IF cursor < Len(dataframes) THEN pc ELSE next
LoopCursor == IF cursor < Len(dataframes) THEN cursor + 1 ELSE 1

\* discover_node 31..35: initial_candidates, and the empty all_primary_keys,
\* which primary_keys holds from here on
DiscoverInitialCandidates ==
    /\ node = "discover"
    /\ pc = "initial_candidates"
    /\ initial_candidates' =
           [i \in DOMAIN dataframes |->
               [key |-> dataframes[i].key, value |-> SuggestPrimaryKeysOf(dataframes[i].value)]]
    /\ primary_keys' = EmptyDict
    /\ pc' = IF dataframes = <<>> THEN "timestamp_columns" ELSE "refine"
    /\ cursor' = 1
    /\ UNCHANGED <<dataframes, schema_reports, foreign_keys, timestamp_columns,
                   simple_timestamps, node, state, tables_to_classify, result,
                   validated_history>>

\* discover_node 36..67: one iteration of the refinement loop
RefineTable ==
    /\ node = "discover"
    /\ pc = "refine"
    /\ primary_keys' = RefineTableOf(primary_keys, dataframes,
                                     initial_candidates[cursor].key,
                                     initial_candidates[cursor].value)
    /\ pc' = LoopPc("foreign_keys")
    /\ cursor' = LoopCursor
    /\ UNCHANGED <<dataframes, schema_reports, foreign_keys, timestamp_columns,
                   simple_timestamps, node, initial_candidates, state,
                   tables_to_classify, result, validated_history>>

\* discover_node 69: suggest_foreign_keys for one table of the comprehension
SuggestForeignKeys ==
    /\ node = "discover"
    /\ pc = "foreign_keys"
    /\ foreign_keys' = Put(foreign_keys, dataframes[cursor].key,
                           SuggestForeignKeysOf(dataframes[cursor].value,
                                                dataframes[cursor].key,
                                                primary_keys, dataframes))
    /\ pc' = LoopPc("timestamp_columns")
    /\ cursor' = LoopCursor
    /\ UNCHANGED <<dataframes, schema_reports, primary_keys, timestamp_columns,
                   simple_timestamps, node, initial_candidates, state,
                   tables_to_classify, result, validated_history>>

\* discover_node 70..79: detect_timestamp_column for every table, and the
\* return, which empties validated_classifications; then the edge to classify
DiscoverReturn ==
    /\ node = "discover"
    /\ pc = "timestamp_columns"
    /\ simple_timestamps' =
           [i \in DOMAIN dataframes |->
               [key |-> dataframes[i].key,
                value |-> DetectTimestampColumnOf(dataframes[i].value, dataframes[i].key)]]
    /\ state' = [state EXCEPT !.validated_classifications = EmptyDict]
    /\ node' = "classify"
    /\ pc' = "done"
    /\ UNCHANGED <<dataframes, schema_reports, primary_keys, foreign_keys,
                   timestamp_columns, cursor, initial_candidates,
                   tables_to_classify, result, validated_history>>

\* what classify_table returns
Classifications == {"Entity", "Event"}

\* classify_node, then the edge to validate
Classify ==
    /\ node = "classify"
    /\ \E decided \in [Range(TablesToClassify(dataframes, state.validated_classifications))
                          -> Classifications] :
           state' = ClassifyOf(state, dataframes, decided)
    /\ tables_to_classify' = TablesToClassify(dataframes, state.validated_classifications)
    /\ node' = "validate"
    /\ UNCHANGED <<dataframes, schema_reports, primary_keys, foreign_keys,
                   timestamp_columns, simple_timestamps, pc, cursor,
                   initial_candidates, result, validated_history>>

\* validate_node on the result res of the validator
Validate(res) ==
    /\ node = "validate"
    /\ state' = ValidateOf(state, res)
    /\ result' = <<res>>
    /\ validated_history' =
           Update(ValidateOf(state, res).validated_classifications, validated_history)
    /\ node' = "should_continue"
    /\ UNCHANGED <<dataframes, schema_reports, primary_keys, foreign_keys,
                   timestamp_columns, simple_timestamps, pc, cursor,
                   initial_candidates, tables_to_classify>>

\* the conditional edge after validate
ShouldContinue ==
    /\ node = "should_continue"
    /\ node' = ShouldContinueOf(state)
    /\ UNCHANGED <<dataframes, schema_reports, primary_keys, foreign_keys,
                   timestamp_columns, simple_timestamps, pc, cursor,
                   initial_candidates, state, tables_to_classify, result,
                   validated_history>>

\* main.py 53: the run ended and its classifications are printed as the result
FinishedAsSuccess == node = "END" /\ state.critique = <<>>

-----------------------------------------------------------------------------
(* Names *)

N_t == <<"t">>
N_customer_id == <<"c","u","s","t","o","m","e","r","_","i","d">>
N_ORDER_ID == <<"O","R","D","E","R","_","I","D">>
N_code == <<"c","o","d","e">>
N_label == <<"l","a","b","e","l">>
N_orders == <<"o","r","d","e","r","s">>
N_customers == <<"c","u","s","t","o","m","e","r","s">>
N_order_id == <<"o","r","d","e","r","_","i","d">>
N_CUSTOMER_ID == <<"C","U","S","T","O","M","E","R","_","I","D">>
N_customerid == <<"c","u","s","t","o","m","e","r","i","d">>
N_paid == <<"p","a","i","d">>
N_id == <<"i","d">>
N_order_date == <<"o","r","d","e","r","_","d","a","t","e">>
N_created_at == <<"c","r","e","a","t","e","d","_","a","t">>
N_updated_at == <<"u","p","d","a","t","e","d","_","a","t">>
N_birth_date == <<"b","i","r","t","h","_","d","a","t","e">>
N_status == <<"s","t","a","t","u","s">>
N_last_order_date_v2 == <<"l","a","s","t","_","o","r","d","e","r","_","d","a","t","e","_","v","2">>
N_name == <<"n","a","m","e">>

-----------------------------------------------------------------------------
(* Tables the profiler is run on *)

MaxRows == 2
MaxCols == 2
MaxCells == 4

ProfileNames == {N_customer_id, N_ORDER_ID, N_code, N_label}
ProfileDTypes == {"Int64", "Utf8"}

\* the cells a small column is made of
SmallCells(dtype) ==
    IF dtype = "Utf8" THEN {Null, Some(<<"7">>), Some(<<"a","b">>)}
    ELSE {Null, Some(Digits(1)), Some(Digits(2))}

\* sequences of length n of distinct members of S
RECURSIVE InjectiveSeqs(_, _)
InjectiveSeqs(S, n) ==
    IF n = 0 THEN {<<>>}
    ELSE UNION { {Append(s, x) : x \in S \ Range(s)} : s \in InjectiveSeqs(S, n - 1) }

PosOf(cols, c) == CHOOSE i \in DOMAIN cols : cols[i] = c

\* a table from its column names and, per position, a dtype and the cells
TableOf(cols, choice) ==
    [ columns |-> cols,
      dtype |-> [c \in Range(cols) |-> choice[PosOf(cols, c)].dtype],
      data |-> [c \in Range(cols) |-> choice[PosOf(cols, c)].cells] ]

SmallColumns(n) ==
    { [dtype |-> dtype, cells |-> cells] :
        dtype \in ProfileDTypes, cells \in UNION {[1..n -> SmallCells(d)] : d \in ProfileDTypes} }

SmallShapes == { sh \in (0..MaxRows) \X (0..MaxCols) : sh[1] * sh[2] <= MaxCells }

SmallTables ==
    UNION { { TableOf(cols, choice) :
                cols \in InjectiveSeqs(ProfileNames, sh[2]),
                choice \in { ch \in [1..sh[2] -> SmallColumns(sh[1])] :
                               \A i \in 1..sh[2] :
                                  Range(ch[i].cells) \subseteq SmallCells(ch[i].dtype) } }
            : sh \in SmallShapes }

\* the j-th value of a generated string column
StringValue(kind, j) ==
    CASE kind = "numeric" -> Digits(j)
      [] kind = "numeric_nl" -> Digits(j) \o <<"\n">>
      [] kind = "date" -> <<"2","0">> \o TwoDigits(j) \o <<"-","0","1","-","3","1">>
      [] kind = "email" -> <<"U">> \o Digits(j) \o <<"@","x","-","y",".","I","O">>
      [] kind = "uuid" -> <<"0","0","0","0","A","B","C","D","-","0","0","0","0","-",
                            "0","0","0","0","-","0","0","0","0","-",
                            "f","f","f","f","0","0","0","0","0","0">> \o TwoDigits(j)
      [] kind = "free" -> <<"n","o"," ">> \o Digits(j)
      [] kind = "mixed" -> IF j % 2 = 0 THEN Digits(j) ELSE <<"n","o"," ">> \o Digits(j)

StringKinds == {"numeric", "numeric_nl", "date", "email", "uuid", "free", "mixed"}

\* a column of n cells: `nulls` nulls first, then values cycling over k distinct
\* ones; the non-null cells after the first SampleSize ones are of kind `tail`
GeneratedCells(dtype, n, nulls, k, kind, tail) ==
    [ i \in 1..n |->
        IF i <= nulls THEN Null
        ELSE LET j == (i - nulls - 1) % k
             IN  IF dtype # "Utf8" THEN Some(Digits(j))
                 ELSE IF i - nulls > SampleSize THEN Some(StringValue(tail, j))
                 ELSE Some(StringValue(kind, j)) ]

BigRowCounts ==
    {CategoricalAbsolute, SampleSize + 2, CategoricalRatioDen * (CategoricalAbsolute + 1)}

DistinctChoices ==
    {1, CategoricalAbsolute - 1, CategoricalAbsolute, CategoricalAbsolute + 1}

BigTables ==
    { TableOf(<<N_code>>, <<[dtype |-> "Int64",
                             cells |-> GeneratedCells("Int64", n, nulls, k, "", "")]>>) :
        n \in BigRowCounts, nulls \in 0..1, k \in DistinctChoices }
    \cup
    { TableOf(<<N_code>>, <<[dtype |-> "Utf8",
                             cells |-> GeneratedCells("Utf8", n, nulls, k, kind, tail)]>>) :
        n \in BigRowCounts, nulls \in 0..1, k \in DistinctChoices,
        kind \in StringKinds, tail \in {"numeric", "free"} }

ProfileTables == SmallTables \cup BigTables

InitProfile ==
    /\ dataframes \in { Put(EmptyDict, N_t, df) : df \in ProfileTables }
    /\ schema_reports = EmptyDict
    /\ primary_keys = EmptyDict
    /\ foreign_keys = EmptyDict
    /\ timestamp_columns = EmptyDict
    /\ simple_timestamps = EmptyDict
    /\ GraphNotStarted

NextProfile ==
    \/ \E t \in KeySet(dataframes) : GetSmartSchema(t)
    \/ \E t \in KeySet(dataframes) : IdentifyPrimaryKey(t)

SpecProfile == InitProfile /\ [][NextProfile]_vars

-----------------------------------------------------------------------------
(* Tables and primary-key maps analyze_foreign_keys is run on: a source    *)
(* table orders and a parent table customers                               *)

\* rows of the source table
FKRows == 20
\* distinct values of the parent's key columns
NParent == 3

Dict2(k1, v1, k2, v2) == Put(Put(EmptyDict, k1, v1), k2, v2)

\* customers: customer_id holds NParent values, one of them twice, and a
\* null; id holds the same values, two of them twice
CustomersTable(dtype) ==
    TableOf(<<N_customer_id, N_id>>,
            << [dtype |-> dtype,
                cells |-> [i \in 1..(NParent + 2) |->
                             IF i = NParent + 2 THEN Null ELSE Some(Digits((i - 1) % NParent))]],
               [dtype |-> "Int64",
                cells |-> [i \in 1..(NParent + 2) |-> Some(Digits((i - 1) % NParent))]] >>)

\* a source column of FKRows cells: `nulls` nulls, then `matches` values of
\* the parent, then values the parent does not hold
ChildCells(nulls, matches) ==
    [ i \in 1..FKRows |->
        IF i <= nulls THEN Null
        ELSE IF i <= nulls + matches THEN Some(Digits((i - nulls - 1) % NParent))
        ELSE Some(Digits(NParent + i)) ]

OrderIdColumn == [dtype |-> "Int64", cells |-> [i \in 1..FKRows |-> Some(Digits(i))]]

FKNames == {N_customer_id, N_CUSTOMER_ID, N_customerid, N_paid, N_code}

FKNamePairs == {<<N_customer_id, N_CUSTOMER_ID>>, <<N_customerid, N_customer_id>>}

ParentKeyChoices == {<<N_customer_id>>, <<N_id>>, <<N_customer_id, N_id>>, CompositeSentinel}

OneColumnInputs ==
    { [ dataframes |->
          Dict2(N_orders,
                TableOf(<<N_order_id, name>>,
                        <<OrderIdColumn, [dtype |-> dtype, cells |-> ChildCells(nulls, matches)]>>),
                N_customers, CustomersTable(target_dtype)),
        primary_keys |-> Dict2(N_orders, <<N_order_id>>, N_customers, pks) ] :
        name \in FKNames, dtype \in {"Int64", "Int32", "Utf8"},
        target_dtype \in {"Int64", "Utf8"}, pks \in ParentKeyChoices,
        nulls \in {0, 1, FKRows}, matches \in 0..FKRows }

TwoColumnInputs ==
    { [ dataframes |->
          Dict2(N_orders,
                TableOf(<<N_order_id, pair[1], pair[2]>>,
                        <<OrderIdColumn,
                          [dtype |-> "Int64", cells |-> ChildCells(nulls, m1)],
                          [dtype |-> "Int64", cells |-> ChildCells(nulls, m2)]>>),
                N_customers, CustomersTable("Int64")),
        primary_keys |-> Dict2(N_orders, <<N_order_id>>, N_customers, <<N_customer_id>>) ] :
        pair \in FKNamePairs, nulls \in {0, 1}, m1 \in 0..FKRows, m2 \in 0..FKRows }

InitFK ==
    /\ \E input \in OneColumnInputs \cup TwoColumnInputs :
          /\ dataframes = input.dataframes
          /\ primary_keys = input.primary_keys
    /\ schema_reports = EmptyDict
    /\ foreign_keys = EmptyDict
    /\ timestamp_columns = EmptyDict
    /\ simple_timestamps = EmptyDict
    /\ GraphNotStarted

NextFK == \E t \in KeySet(dataframes) : AnalyzeForeignKeys(t)

SpecFK == InitFK /\ [][NextFK]_vars

-----------------------------------------------------------------------------
(* Tables the timestamp detectors are run on: a table orders of up to two  *)
(* columns                                                                 *)

\* rows of the small tables
TSRows == 10

TSRowCounts == {0, TSRows, GranularityRows + 2}

TSNames == {N_order_date, N_created_at, N_updated_at, N_birth_date, N_status,
            N_last_order_date_v2, N_code}

TSDTypes == {"Date", "Utf8", "Int64"}

\* <<nulls, distinct values>> of a column of n rows: complete and distinct;
\* null ratio just within 0.3, one value; null ratio just above 0.3, distinct
TSShapes(n) == {<<0, n>>, <<(3 * n) \div 10, 1>>, <<((3 * n) \div 10) + 1, n>>}

TSColumns(n) ==
    { [dtype |-> dtype,
       cells |-> GeneratedCells(dtype, n, IF sh[1] > n THEN n ELSE sh[1],
                                IF sh[2] = 0 THEN 1 ELSE sh[2], "numeric", "numeric")] :
        dtype \in TSDTypes, sh \in TSShapes(n) }

TSTables ==
    UNION { UNION { { TableOf(cols, choice) : choice \in [1..nc -> TSColumns(n)] }
                    : cols \in InjectiveSeqs(TSNames, nc) }
            : n \in TSRowCounts, nc \in 0..2 }

InitTS ==
    /\ dataframes \in { Put(EmptyDict, N_orders, df) : df \in TSTables }
    /\ schema_reports = EmptyDict
    /\ primary_keys = EmptyDict
    /\ foreign_keys = EmptyDict
    /\ timestamp_columns = EmptyDict
    /\ simple_timestamps = EmptyDict
    /\ GraphNotStarted

NextTS ==
    \/ \E t \in KeySet(dataframes) : DetectPrimaryEventTimestamp(t)
    \/ \E t \in KeySet(dataframes) : DetectTimestampColumn(t)

SpecTS == InitTS /\ [][NextTS]_vars

-----------------------------------------------------------------------------
(* The end-to-end scenario: orders(order_id, customer_id, order_date) and  *)
(* customers(customer_id, name)                                            *)

MaxOrders == 3
MaxCustomers == 2

\* orders of n rows: order_id distinct; customer_id cycling over kc values
\* of the parent, kc < n; order_date without null, distinct or constant
OrdersTable(cols, n, kc, int_dtype, date_dtype, dates_distinct) ==
    [ columns |-> cols,
      dtype |-> [c \in Range(cols) |->
                    IF c = N_order_id THEN "Int64"
                    ELSE IF c = N_customer_id THEN int_dtype ELSE date_dtype],
      data |-> [c \in Range(cols) |->
                   [i \in 1..n |->
                       IF c = N_order_id THEN Some(Digits(i))
                       ELSE IF c = N_customer_id THEN Some(Digits((i - 1) % kc))
                       ELSE Some(Digits(IF dates_distinct THEN 20000 + i ELSE 20000))]] ]

\* customers of n rows: customer_id distinct; name distinct, or a null and
\* a repeated text
CustomersOfScenario(n, names_distinct) ==
    TableOf(<<N_customer_id, N_name>>,
            << [dtype |-> "Int64", cells |-> [i \in 1..n |-> Some(Digits(i - 1))]],
               [dtype |-> "Utf8",
                cells |-> [i \in 1..n |->
                             IF names_distinct THEN Some(<<"n","o"," ">> \o Digits(i))
                             ELSE IF i = 1 THEN Null ELSE Some(<<"n","o">>)]] >>)

OrdersColumnOrders ==
    {<<N_order_id, N_customer_id, N_order_date>>, <<N_order_date, N_customer_id, N_order_id>>}

ScenarioInputs ==
    UNION { { IF orders_first THEN Dict2(N_orders, o, N_customers, c)
              ELSE Dict2(N_customers, c, N_orders, o) : orders_first \in BOOLEAN }
            : o \in { OrdersTable(cols, sz[1], sz[3], int_dtype, date_dtype, dd) :
                        cols \in OrdersColumnOrders,
                        int_dtype \in {"Int64", "Int32"},
                        date_dtype \in {"Date", "Datetime"},
                        dd \in BOOLEAN,
                        sz \in {x \in (2..MaxOrders) \X (1..MaxCustomers) \X (1..MaxCustomers) :
                                  x[3] <= x[2] /\ x[3] < x[1]} },
              c \in { CustomersOfScenario(n, nd) : n \in 1..MaxCustomers, nd \in BOOLEAN } }

InitE2E ==
    /\ dataframes \in
          { d \in ScenarioInputs :
              \* every customer_id of orders is a customer_id of customers
              Range(Get(d, N_orders).data[N_customer_id])
                 \subseteq Range(Get(d, N_customers).data[N_customer_id]) }
    /\ schema_reports = EmptyDict
    /\ primary_keys = EmptyDict
    /\ foreign_keys = EmptyDict
    /\ timestamp_columns = EmptyDict
    /\ simple_timestamps = EmptyDict
    /\ GraphNotStarted

NextE2E ==
    \/ \E t \in KeySet(dataframes) : GetSmartSchema(t)
    \/ \E t \in KeySet(dataframes) : IdentifyPrimaryKey(t)
    \/ \E t \in KeySet(dataframes) : AnalyzeForeignKeys(t)
    \/ \E t \in KeySet(dataframes) : DetectPrimaryEventTimestamp(t)

SpecE2E == InitE2E /\ [][NextE2E]_vars

-----------------------------------------------------------------------------
(* Tables discover_node is run on: orders and customers, of one or two     *)
(* Int64 columns                                                           *)

MaxDiscoverRows == 2

\* <<nulls, distinct values>> of a column of n rows
DiscoverShapes(n, with_nulls) ==
    { sh \in (0..1) \X (1..n) :
         /\ sh[1] = 1 => with_nulls
         /\ sh[2] = 1 \/ sh[1] + sh[2] <= n }

DiscoverColumns(n, with_nulls) ==
    { [dtype |-> "Int64",
       cells |-> GeneratedCells("Int64", n, sh[1], sh[2], "numeric", "numeric")] :
        sh \in DiscoverShapes(n, with_nulls) }

DiscoverColumnLists ==
    { <<N_order_id>>, <<N_customer_id>>, <<N_order_id, N_customer_id>>,
      <<N_customer_id, N_order_id>>, <<N_order_id, N_code>> }

DiscoverTables(with_nulls) ==
    UNION { UNION { { TableOf(cols, choice) :
                        choice \in [1..Len(cols) -> DiscoverColumns(n, with_nulls)] }
                    : cols \in DiscoverColumnLists }
            : n \in 1..MaxDiscoverRows }

InitDiscover ==
    /\ dataframes \in { Dict2(N_orders, a, N_customers, b) :
                          a \in DiscoverTables(TRUE), b \in DiscoverTables(FALSE) }
    /\ schema_reports = EmptyDict
    /\ primary_keys = EmptyDict
    /\ foreign_keys = EmptyDict
    /\ timestamp_columns = EmptyDict
    /\ simple_timestamps = EmptyDict
    /\ GraphNotStarted

NextDiscover ==
    \/ DiscoverInitialCandidates
    \/ RefineTable
    \/ SuggestForeignKeys
    \/ DiscoverReturn

SpecDiscover == InitDiscover /\ [][NextDiscover]_vars

-----------------------------------------------------------------------------
(* Runs of the classification graph, for every outcome of the decider and  *)
(* of the validator                                                        *)

\* max_retries of the initial state is drawn from 0..MaxRetries
MaxRetries == 3
\* the critiques of one validator result
MaxCritiques == 1

\* the tables a critique names: those of the run and one that is none of them
CritiqueTables == {N_orders, N_customers, N_t}

CritiqueDetails ==
    { [table_name |-> name, issue |-> <<"i">>, reasoning |-> <<"r">>] :
        name \in CritiqueTables }

\* a parsed response, or the default ValidationResult(is_valid=False,
\* critiques=[]) of validator/agent.py 117 and 127
ValidatorResults ==
    { [is_valid |-> v, critiques |-> cs] :
        v \in BOOLEAN,
        cs \in UNION { [1..n -> CritiqueDetails] : n \in 0..MaxCritiques } }

GraphTables ==
    { Dict2(N_orders,
            TableOf(<<N_order_id, N_customer_id>>,
                    << [dtype |-> "Int64", cells |-> <<Some(Digits(1)), Some(Digits(2))>>],
                       [dtype |-> "Int64", cells |-> <<Some(Digits(1)), Some(Digits(1))>>] >>),
            N_customers,
            TableOf(<<N_customer_id>>,
                    << [dtype |-> "Int64", cells |-> <<Some(Digits(1))>>] >>)),
      Put(EmptyDict, N_orders,
          TableOf(<<N_order_id>>,
                  << [dtype |-> "Int64", cells |-> <<Some(Digits(1))>>] >>)) }

InitGraph ==
    /\ dataframes \in GraphTables
    /\ schema_reports = EmptyDict
    /\ primary_keys = EmptyDict
    /\ foreign_keys = EmptyDict
    /\ timestamp_columns = EmptyDict
    /\ simple_timestamps = EmptyDict
    /\ node = "discover"
    /\ pc = "initial_candidates"
    /\ cursor = 1
    /\ initial_candidates = EmptyDict
    /\ state \in { InitialState(max_retries) : max_retries \in 0..MaxRetries }
    /\ tables_to_classify = <<>>
    /\ result = <<>>
    /\ validated_history = EmptyDict

NextGraph ==
    \/ DiscoverInitialCandidates
    \/ RefineTable
    \/ SuggestForeignKeys
    \/ DiscoverReturn
    \/ Classify
    \/ \E res \in ValidatorResults : Validate(res)
    \/ ShouldContinue

\* the compiled graph runs the next node until it reaches END
SpecGraph == InitGraph /\ [][NextGraph]_vars /\ WF_vars(NextGraph)

-----------------------------------------------------------------------------
(* Properties of the column profiler and of the primary-key identifier,    *)
(* under SpecProfile                                                       *)

Profiled == {t \in KeySet(schema_reports) : Get(schema_reports, t).raised = ""}

Cells(t, c) == Get(dataframes, t).data[c]

NoNulls(series) == \A i \in DOMAIN series : series[i] # Null

AllDistinct(series) == \A i, j \in DOMAIN series : i # j => series[i] # series[j]

\* C1: for every table with row_count = 0, whatever its columns,
\* get_smart_schema returns an empty schema report and raises nothing.
C1_EmptyTableEmptyReport ==
    \A t \in KeySet(schema_reports) :
        Height(Get(dataframes, t)) = 0 =>
            /\ Get(schema_reports, t).raised = ""
            /\ Get(schema_reports, t).report = <<>>

\* C2: with row_count > 0, a column is a PK candidate iff it holds no null
\* and its cells are all distinct (n_unique = row_count), and notes is
\* "PK Candidate" exactly for the candidates, empty otherwise.
C2_PkCandidateIff ==
    \A t \in Profiled :
        Height(Get(dataframes, t)) > 0 =>
            \A i \in DOMAIN Get(schema_reports, t).report :
                LET e == Get(schema_reports, t).report[i]
                    series == Cells(t, e.column)
                IN  /\ e.is_pk_candidate <=> (NoNulls(series) /\ AllDistinct(series))
                    /\ e.notes = (IF e.is_pk_candidate THEN "PK Candidate" ELSE "")
                    /\ e.column = Get(dataframes, t).columns[i]

\* a report with a candidate, and with a column of distinct cells one of
\* which is null, which is no candidate
C2_Witness ==
    \E t \in Profiled :
        /\ \E i \in DOMAIN Get(schema_reports, t).report :
              /\ Get(schema_reports, t).report[i].is_pk_candidate
              /\ Get(schema_reports, t).report[i].notes = "PK Candidate"
        /\ \E i \in DOMAIN Get(schema_reports, t).report :
              LET e == Get(schema_reports, t).report[i]
              IN  /\ ~e.is_pk_candidate
                  /\ e.notes = ""
                  /\ AllDistinct(Cells(t, e.column))
                  /\ ~NoNulls(Cells(t, e.column))

\* the first SampleSize non-null values of a column
C3_Sample(series) ==
    LET idx == {i \in DOMAIN series : series[i] # Null}
    IN  {series[i][1] : i \in {i \in idx : Cardinality({k \in idx : k <= i}) <= SampleSize}}

C3_WholeSampleMatches(type_name, series) ==
    /\ C3_Sample(series) # {}
    /\ \A x \in C3_Sample(series) : ReMatch(type_name, x)

\* C3: every column with n_unique < 50 (row_count > 0) is reported as
\* "Categorical", unless it is a string column whose whole sample matches one
\* of the four patterns, and then the label of the first such pattern is
\* reported.
C3_CategoricalUnlessPattern ==
    \A t \in Profiled :
        \A i \in DOMAIN Get(schema_reports, t).report :
            LET e == Get(schema_reports, t).report[i]
                series == Cells(t, e.column)
                hits == {k \in DOMAIN PatternNames :
                            C3_WholeSampleMatches(PatternNames[k], series)}
            IN  (Height(Get(dataframes, t)) > 0 /\ Cardinality(Range(series)) < CategoricalAbsolute) =>
                    IF e.storage_type = "Utf8" /\ hits # {}
                    THEN e.semantic_type = PatternNames[Min(hits)]
                    ELSE e.semantic_type = "Categorical"

\* lexicographic order of the keys (no "id" in the lower-cased name, storage is Utf8)
C4_NoId(e) == ~Contains(<<"i","d">>, Lower(e.column))
C4_IsString(e) == e.storage_type = "Utf8"
C4_KeyLess(a, b) ==
    \/ (~C4_NoId(a) /\ C4_NoId(b))
    \/ (C4_NoId(a) = C4_NoId(b) /\ ~C4_IsString(a) /\ C4_IsString(b))
C4_KeyEqual(a, b) == C4_NoId(a) = C4_NoId(b) /\ C4_IsString(a) = C4_IsString(b)

\* C4: identify_primary_key returns the sentinel iff the report has no PK
\* candidate; otherwise it returns exactly one column, a candidate, the first
\* in ascending order of the key, ties resolved by the report's column order.
C4_PrimaryKeyChoice ==
    \A t \in KeySet(primary_keys) :
        LET rep == Get(schema_reports, t).report
            cands == {i \in DOMAIN rep : rep[i].is_pk_candidate}
            pk == Get(primary_keys, t)
        IN  /\ (pk = CompositeSentinel) <=> (cands = {})
            /\ cands # {} =>
                 /\ Len(pk) = 1
                 /\ \E i \in cands :
                       /\ rep[i].column = pk[1]
                       /\ \A j \in cands \ {i} :
                             \/ C4_KeyLess(rep[i], rep[j])
                             \/ (C4_KeyEqual(rep[i], rep[j]) /\ i < j)

\* candidates code (string) and customer_id (integer), in this order of the
\* report: customer_id is returned
C4_Witness ==
    \E t \in KeySet(primary_keys) :
        LET rep == Get(schema_reports, t).report
        IN  /\ Len(rep) >= 2
            /\ rep[1].column = N_code /\ rep[1].storage_type = "Utf8" /\ rep[1].is_pk_candidate
            /\ rep[2].column = N_customer_id /\ rep[2].storage_type = "Int64"
            /\ rep[2].is_pk_candidate
            /\ Get(primary_keys, t) = <<N_customer_id>>

-----------------------------------------------------------------------------
(* Properties of analyze_foreign_keys, under SpecFK                        *)

Analyzed == {t \in KeySet(foreign_keys) : Get(foreign_keys, t).raised = ""}

\* the (C, O, P) triples of source table t: C no primary-key column of t,
\* O another table, P a primary-key column of O
TriplesOf(t) ==
    { tr \in Range(Get(dataframes, t).columns) \X KeySet(primary_keys)
             \X UNION {Range(Get(primary_keys, o)) : o \in KeySet(primary_keys)} :
        /\ tr[1] \notin Range(Get(primary_keys, t))
        /\ tr[2] # t
        /\ tr[3] \in Range(Get(primary_keys, tr[2]))
        /\ tr[3] \in Range(Get(dataframes, tr[2]).columns) }

SourceDType(t, tr) == Get(dataframes, t).dtype[tr[1]]
TargetDType(tr) == Get(dataframes, tr[2]).dtype[tr[3]]

PassesTypeGate(t, tr) ==
    \/ SourceDType(t, tr) = TargetDType(tr)
    \/ (SourceDType(t, tr) \in {"Int32", "Int64", "Float64"}
        /\ TargetDType(tr) \in {"Int32", "Int64", "Float64"})

\* the non-null rows of C, and those of them whose value occurs in P
NonNullRows(t, tr) == {i \in DOMAIN Cells(t, tr[1]) : Cells(t, tr[1])[i] # Null}
MatchingRows(t, tr) ==
    {i \in NonNullRows(t, tr) : Cells(t, tr[1])[i] \in Range(Cells(tr[2], tr[3]))}
NonNullCount(t, tr) == Cardinality(NonNullRows(t, tr))
MatchCount(t, tr) == Cardinality(MatchingRows(t, tr))

\* overlap_fraction compared with 0.95, 1.0, 0.5 and 0.6
AtLeastThreshold(t, tr) == 100 * MatchCount(t, tr) >= 95 * NonNullCount(t, tr)
FullOverlap(t, tr) == MatchCount(t, tr) = NonNullCount(t, tr)
AboveHalf(t, tr) == 2 * MatchCount(t, tr) > NonNullCount(t, tr)
AtLeastSixTenths(t, tr) == 10 * MatchCount(t, tr) >= 6 * NonNullCount(t, tr)

\* the suggestions emitted for a triple
EmittedFor(t, tr) ==
    {i \in DOMAIN Get(foreign_keys, t).suggestions :
        LET sg == Get(foreign_keys, t).suggestions[i]
        IN  sg.column = tr[1] /\ sg.references = tr[2] \o <<".">> \o tr[3]}

SuggestionOf(t, tr) ==
    Get(foreign_keys, t).suggestions[CHOOSE i \in EmittedFor(t, tr) : TRUE]

\* C5: for every triple that passes the type gate, has name score >= 0.1 and
\* a non-null value in C, a suggestion is emitted iff overlap >= 0.95 or
\* (overlap > 0.5 and name score > 0.8); in the first case confidence is
\* "High" exactly at overlap 1.0, else "Medium", and match_reason is "Exact
\* Name" exactly at name score 1.0, else "Pattern Match"; in the second case
\* they are "Low (Dirty Data?)" and "Strong Name Match, Partial Data".
C5_Decision ==
    \A t \in Analyzed : \A tr \in TriplesOf(t) :
        LET score == NameScore(tr[1], tr[2], tr[3])
        IN  (PassesTypeGate(t, tr) /\ score >= 1 /\ NonNullCount(t, tr) > 0) =>
              /\ Cardinality(EmittedFor(t, tr)) <= 1
              /\ (EmittedFor(t, tr) # {}) <=>
                     (AtLeastThreshold(t, tr) \/ (AboveHalf(t, tr) /\ score > 8))
              /\ (EmittedFor(t, tr) # {} /\ AtLeastThreshold(t, tr)) =>
                    /\ SuggestionOf(t, tr).confidence =
                          (IF FullOverlap(t, tr) THEN "High" ELSE "Medium")
                    /\ SuggestionOf(t, tr).match_reason =
                          (IF score = 10 THEN "Exact Name" ELSE "Pattern Match")
              /\ (EmittedFor(t, tr) # {} /\ ~AtLeastThreshold(t, tr)) =>
                    /\ SuggestionOf(t, tr).confidence = "Low (Dirty Data?)"
                    /\ SuggestionOf(t, tr).match_reason = "Strong Name Match, Partial Data"

\* an overlap of exactly one half with an exact name: nothing is emitted;
\* and an overlap of 19/20 with a pattern name: Medium, Pattern Match
C5_Witness ==
    \E t \in Analyzed : \E tr, tr2 \in TriplesOf(t) :
        /\ PassesTypeGate(t, tr) /\ NameScore(tr[1], tr[2], tr[3]) = 10
        /\ NonNullCount(t, tr) > 0 /\ 2 * MatchCount(t, tr) = NonNullCount(t, tr)
        /\ EmittedFor(t, tr) = {}
        /\ PassesTypeGate(t, tr2) /\ NameScore(tr2[1], tr2[2], tr2[3]) = 9
        /\ 100 * MatchCount(t, tr2) = 95 * NonNullCount(t, tr2)
        /\ EmittedFor(t, tr2) # {}
        /\ SuggestionOf(t, tr2).confidence = "Medium"
        /\ SuggestionOf(t, tr2).match_reason = "Pattern Match"

\* the ranking none < Low < Medium < High of the outcome for a triple
Rank(t, tr) ==
    IF EmittedFor(t, tr) = {} THEN 0
    ELSE CASE SuggestionOf(t, tr).confidence = "Low (Dirty Data?)" -> 1
           [] SuggestionOf(t, tr).confidence = "Medium" -> 2
           [] SuggestionOf(t, tr).confidence = "High" -> 3

\* triples of the claim: type gate passed, name score >= 0.9, overlap in [0.6, 1.0]
StrongTriples(t) ==
    {tr \in TriplesOf(t) :
        /\ PassesTypeGate(t, tr)
        /\ NameScore(tr[1], tr[2], tr[3]) >= 9
        /\ NonNullCount(t, tr) > 0
        /\ AtLeastSixTenths(t, tr)}

\* of two triples with the same name score and target, the one with the
\* larger overlap never ranks lower
C6_Monotone ==
    \A t \in Analyzed : \A a, b \in StrongTriples(t) :
        ( /\ a[2] = b[2] /\ a[3] = b[3]
          /\ NameScore(a[1], a[2], a[3]) = NameScore(b[1], b[2], b[3])
          /\ MatchCount(t, a) * NonNullCount(t, b) <= MatchCount(t, b) * NonNullCount(t, a) )
        => Rank(t, a) <= Rank(t, b)

\* C6 as claimed: for a name score >= 0.9 and an overlap rising from 0.6 to
\* 1.0 the confidence never decreases, and the outcome flips from no
\* suggestion to High exactly at overlap 0.95 (inclusive).
C6_FlipsFromNoneToHigh ==
    /\ C6_Monotone
    /\ \A t \in Analyzed : \A tr \in StrongTriples(t) :
          Rank(t, tr) = (IF AtLeastThreshold(t, tr) THEN 3 ELSE 0)

\* C6 as amended: for a name score >= 0.9 and an overlap rising from 0.6 to
\* 1.0 the confidence never decreases; the outcome is Low below 0.95, flips
\* to Medium exactly at 0.95 (inclusive) and is High exactly at 1.0.
C6_FlipsFromLowToMedium ==
    /\ C6_Monotone
    /\ \A t \in Analyzed : \A tr \in StrongTriples(t) :
          Rank(t, tr) = (IF FullOverlap(t, tr) THEN 3
                         ELSE IF AtLeastThreshold(t, tr) THEN 2 ELSE 1)

\* two columns of the same name score: one just below the threshold is Low,
\* the other, at 19/20, is Medium
C6_Witness ==
    \E t \in Analyzed : \E a, b \in StrongTriples(t) :
        /\ a # b /\ a[2] = b[2] /\ a[3] = b[3]
        /\ NameScore(a[1], a[2], a[3]) = NameScore(b[1], b[2], b[3])
        /\ ~AtLeastThreshold(t, a) /\ Rank(t, a) = 1
        /\ 100 * MatchCount(t, b) = 95 * NonNullCount(t, b) /\ Rank(t, b) = 2

\* C9: a (C, P) pair of different storage types, not both numeric, yields no
\* suggestion and no error; every suggestion relates columns of equal or of
\* both numeric storage types.
C9_TypeGate ==
    \A t \in KeySet(foreign_keys) :
        /\ \A tr \in TriplesOf(t) : ~PassesTypeGate(t, tr) => EmittedFor(t, tr) = {}
        /\ (\A o \in KeySet(primary_keys) \ {t} :
               Range(Get(primary_keys, o)) \subseteq Range(Get(dataframes, o).columns))
              => Get(foreign_keys, t).raised = ""
        /\ \A i \in DOMAIN Get(foreign_keys, t).suggestions :
              \E tr \in TriplesOf(t) : i \in EmittedFor(t, tr) /\ PassesTypeGate(t, tr)

\* an Int32 column is suggested for an Int64 key, and a column of the exact
\* name whose every value occurs in a key of another, non-numeric type is not
C9_Witness ==
    \E t \in Analyzed : \E tr, tr2 \in TriplesOf(t) :
        /\ SourceDType(t, tr) = "Int32" /\ TargetDType(tr) = "Int64"
        /\ EmittedFor(t, tr) # {}
        /\ ~PassesTypeGate(t, tr2)
        /\ Lower(tr2[1]) = Lower(tr2[3])
        /\ NonNullCount(t, tr2) > 0 /\ FullOverlap(t, tr2)
        /\ EmittedFor(t, tr2) = {}

\* the longest prefix of the text that does not end with "s"
C10_Singular(name) ==
    SubSeq(name, 1, CHOOSE k \in 0..Len(name) :
                       /\ \A i \in (k + 1)..Len(name) : name[i] = "s"
                       /\ (k > 0 => name[k] # "s"))

\* the name score as the claim states it, in tenths
C10_Score(tr) ==
    IF Lower(tr[1]) = Lower(tr[3]) THEN 10
    ELSE IF Contains(C10_Singular(Lower(tr[2])), Lower(tr[1]))
            /\ Contains(<<"i","d">>, Lower(tr[1])) THEN 9
    ELSE IF Contains(Lower(tr[3]), Lower(tr[1])) THEN 5
    ELSE 0

\* C10: the name score is that of the first matching rule (equality 1.0,
\* convention 0.9, substring 0.5, else 0.0), as seen in what is emitted:
\* with no rule matching nothing is emitted whatever the overlap; at or
\* above the threshold the reason is "Exact Name" exactly for 1.0; between
\* one half and the threshold a suggestion is emitted exactly for 0.9 and 1.0.
C10_NameScoreRules ==
    \A t \in Analyzed : \A tr \in TriplesOf(t) :
        (PassesTypeGate(t, tr) /\ NonNullCount(t, tr) > 0) =>
            /\ C10_Score(tr) = 0 => EmittedFor(t, tr) = {}
            /\ (C10_Score(tr) > 0 /\ AtLeastThreshold(t, tr)) =>
                  /\ EmittedFor(t, tr) # {}
                  /\ SuggestionOf(t, tr).match_reason =
                        (IF C10_Score(tr) = 10 THEN "Exact Name" ELSE "Pattern Match")
            /\ (C10_Score(tr) > 0 /\ AboveHalf(t, tr) /\ ~AtLeastThreshold(t, tr)) =>
                  ((EmittedFor(t, tr) # {}) <=> C10_Score(tr) >= 9)

\* a column no rule matches, all of whose values occur in the key: nothing
\* is emitted for it
C10_Witness ==
    \E t \in Analyzed : \E tr \in TriplesOf(t) :
        /\ PassesTypeGate(t, tr)
        /\ C10_Score(tr) = 0
        /\ NonNullCount(t, tr) = FKRows
        /\ FullOverlap(t, tr)
        /\ EmittedFor(t, tr) = {}

-----------------------------------------------------------------------------
(* The range of overlap_percent, under SpecFK                              *)

C14_HasRepeats(series) ==
    \E i, j \in DOMAIN series : i # j /\ series[i] # Null /\ series[i] = series[j]

\* C14: every suggestion of analyze_foreign_keys has overlap_percent in
\* [0, 100] (held in hundredths), and it is 100 times the share of the
\* non-null rows of C whose value occurs in P, rounded to two places: a row of
\* C counts once, however often its value occurs in C or in P, and whether
\* or not P holds a null.
C14_OverlapPercentRange ==
    \A t \in Analyzed :
        /\ \A i \in DOMAIN Get(foreign_keys, t).suggestions :
               /\ Get(foreign_keys, t).suggestions[i].overlap_percent >= 0
               /\ Get(foreign_keys, t).suggestions[i].overlap_percent <= 100 * 100
        /\ \A tr \in TriplesOf(t) :
               EmittedFor(t, tr) # {} =>
                   /\ MatchCount(t, tr) <= NonNullCount(t, tr)
                   /\ 2 * (SuggestionOf(t, tr).overlap_percent * NonNullCount(t, tr)
                           - 100 * 100 * MatchCount(t, tr)) <= NonNullCount(t, tr)
                   /\ 2 * (100 * 100 * MatchCount(t, tr)
                           - SuggestionOf(t, tr).overlap_percent * NonNullCount(t, tr))
                          <= NonNullCount(t, tr)

\* a suggestion with overlap_percent 100 for a source column that repeats
\* values, against a key column that repeats values and holds a null
C14_Witness ==
    \E t \in Analyzed : \E tr \in TriplesOf(t) :
        /\ EmittedFor(t, tr) # {}
        /\ SuggestionOf(t, tr).overlap_percent = 100 * 100
        /\ C14_HasRepeats(Cells(t, tr[1]))
        /\ C14_HasRepeats(Cells(tr[2], tr[3]))
        /\ \E i \in DOMAIN Cells(tr[2], tr[3]) : Cells(tr[2], tr[3])[i] = Null

-----------------------------------------------------------------------------
(* Properties of the timestamp detectors, under SpecTS                     *)

\* null ratio of a column greater than 0.3
MostlyNull(t, c) ==
    10 * Cardinality({i \in DOMAIN Cells(t, c) : Cells(t, c)[i] = Null}) > 3 * Len(Cells(t, c))

\* null ratio of a column equal to 0.4
FourTenthsNull(t, c) ==
    /\ Len(Cells(t, c)) > 0
    /\ 10 * Cardinality({i \in DOMAIN Cells(t, c) : Cells(t, c)[i] = Null}) = 4 * Len(Cells(t, c))

\* detect_primary_event_timestamp alone never selects a column whose null
\* ratio is greater than 0.3
DataPhysicsVeto ==
    \A t \in KeySet(timestamp_columns) :
        \A c \in Range(Get(dataframes, t).columns) :
            MostlyNull(t, c) => Get(timestamp_columns, t) # c

\* C7: in a table orders, a column order_date whose null ratio is 0.4 is
\* never the selected timestamp column, neither under
\* detect_primary_event_timestamp nor under detect_timestamp_column, the
\* policy the discovery pipeline calls.
C7_NullVetoBothPolicies ==
    (Has(dataframes, N_orders)
     /\ N_order_date \in Range(Get(dataframes, N_orders).columns)
     /\ FourTenthsNull(N_orders, N_order_date)) =>
        /\ Has(timestamp_columns, N_orders) => Get(timestamp_columns, N_orders) # N_order_date
        /\ Has(simple_timestamps, N_orders) => Get(simple_timestamps, N_orders) # N_order_date

-----------------------------------------------------------------------------
(* The selection rule of detect_primary_event_timestamp, under SpecTS       *)

\* the columns the data-physics policy looks at: every Date or Datetime
\* column and every Utf8 column whose lower-cased name holds one of date,
\* time, ts, at, day
C11_Candidates(t) ==
    {c \in Range(Get(dataframes, t).columns) :
        \/ Get(dataframes, t).dtype[c] \in {"Date", "Datetime"}
        \/ /\ Get(dataframes, t).dtype[c] = "Utf8"
           /\ \E k \in {<<"d","a","t","e">>, <<"t","i","m","e">>, <<"t","s">>,
                        <<"a","t">>, <<"d","a","y">>} : Contains(k, Lower(c))}

C11_Score(t, c) == PhysicsScore(Get(dataframes, t), c, t)

C11_Positive(t) == {c \in C11_Candidates(t) : C11_Score(t, c) > 0}

C11_Before(t, a, b) ==
    PosOf(Get(dataframes, t).columns, a) < PosOf(Get(dataframes, t).columns, b)

\* C11: detect_primary_event_timestamp returns, among the candidates whose
\* score is strictly positive, one of maximal score, and of several such the
\* first in column order; it returns the empty text when the table has no
\* rows, no candidate, or no candidate of positive score.
C11_FirstMaximalPositive ==
    \A t \in KeySet(timestamp_columns) :
        LET r == Get(timestamp_columns, t)
        IN  IF Height(Get(dataframes, t)) = 0 \/ C11_Positive(t) = {}
            THEN r = <<>>
            ELSE /\ r \in C11_Positive(t)
                 /\ \A c \in C11_Positive(t) :
                        /\ C11_Score(t, c) <= C11_Score(t, r)
                        /\ C11_Score(t, c) = C11_Score(t, r) /\ c # r => C11_Before(t, r, c)

\* a tie of two positive scores was decided for the earlier column
C11_Witness ==
    \E t \in KeySet(timestamp_columns) :
        /\ Get(timestamp_columns, t) \in C11_Positive(t)
        /\ \E c \in C11_Positive(t) :
               /\ c # Get(timestamp_columns, t)
               /\ C11_Score(t, c) = C11_Score(t, Get(timestamp_columns, t))
               /\ C11_Before(t, Get(timestamp_columns, t), c)

-----------------------------------------------------------------------------
(* The table-specific bonus of detect_primary_event_timestamp, under SpecTS *)

\* the table name in lower case with one trailing "s" removed
C15_Singular(t) ==
    IF Len(t) > 0 /\ Lower(t)[Len(t)] = "s" THEN SubSeq(Lower(t), 1, Len(t) - 1) ELSE Lower(t)

C15_BonusNames(t) ==
    {C15_Singular(t) \o <<"_","d","a","t","e">>, C15_Singular(t) \o <<"_","t","i","m","e">>}

\* the name holds none of the words that add to the score otherwise
C15_NoOtherBonus(c) ==
    \A k \in {<<"c","r","e","a","t","e","d","_","a","t">>, <<"r","e","c","o","r","d","_","d","a","t","e">>,
              <<"i","n","s","e","r","t","i","o","n","_","d","a","t","e">>, <<"e","v","e","n","t","_","t","i","m","e">>,
              <<"t","i","m","e","s","t","a","m","p">>, <<"d","a","t","e","t","i","m","e">>} :
        ~Contains(k, Lower(c))

\* the name holds none of the words that take from the score
C15_NoPenalty(c) ==
    \A k \in {<<"u","p","d","a","t","e","d">>, <<"m","o","d","i","f","i","e","d">>,
              <<"b","i","r","t","h">>, <<"d","o","b">>, <<"e","x","p","i","r","y">>,
              <<"e","x","p","i","r","e">>, <<"d","u","e">>, <<"s","t","a","r","t">>,
              <<"e","n","d">>, <<"v","a","l","i","d">>, <<"n","e","x","t">>,
              <<"s","c","h","e","d","u","l","e">>, <<"f","o","r","e","c","a","s","t">>} :
        ~Contains(k, Lower(c))

\* C15: the +5 bonus goes to a candidate iff its lower-cased name equals the
\* singular table name followed by _date or _time.  A candidate whose name
\* only holds such a text inside, and that earns no other bonus in a table
\* of at most 100 rows, has no positive score and is never returned; a
\* candidate whose name equals it, without veto or penalty and alone among
\* the candidates, is returned.
C15_BonusOnlyOnEquality ==
    \A t \in KeySet(timestamp_columns) :
        \A c \in C11_Candidates(t) :
            /\ ( /\ \E b \in C15_BonusNames(t) : Contains(b, Lower(c))
                 /\ Lower(c) \notin C15_BonusNames(t)
                 /\ C15_NoOtherBonus(c)
                 /\ Height(Get(dataframes, t)) <= 100 )
               => Get(timestamp_columns, t) # c
            /\ ( /\ Lower(c) \in C15_BonusNames(t)
                 /\ C11_Candidates(t) = {c}
                 /\ C15_NoPenalty(c)
                 /\ Height(Get(dataframes, t)) > 0
                 /\ ~MostlyNull(t, c) )
               => Get(timestamp_columns, t) = c

-----------------------------------------------------------------------------
(* The candidate columns of the two timestamp policies, under SpecTS       *)

C13_Temporal(t) ==
    {c \in Range(Get(dataframes, t).columns) : Get(dataframes, t).dtype[c] \in {"Date", "Datetime"}}

\* the columns of any storage type whose lower-cased name holds one of date,
\* time, timestamp, created, updated
C13_NamedLikeOne(t) ==
    {c \in Range(Get(dataframes, t).columns) :
        \E k \in {<<"d","a","t","e">>, <<"t","i","m","e">>,
                  <<"t","i","m","e","s","t","a","m","p">>,
                  <<"c","r","e","a","t","e","d">>, <<"u","p","d","a","t","e","d">>} :
            Contains(k, Lower(c))}

\* what detect_timestamp_column gathers: the Date and Datetime columns, and
\* only when there is none, the columns named like one
C13_SimpleCandidates(t) ==
    IF C13_Temporal(t) # {} THEN C13_Temporal(t) ELSE C13_NamedLikeOne(t)

C13_OutputContract ==
    /\ \A t \in KeySet(simple_timestamps) :
           Get(simple_timestamps, t) \in Range(Get(dataframes, t).columns) \cup {<<>>}
    /\ \A t \in KeySet(timestamp_columns) :
           Get(timestamp_columns, t) \in Range(Get(dataframes, t).columns) \cup {<<>>}

\* C13 as stated: for every table the two policies have run on,
\* detect_timestamp_column and detect_primary_event_timestamp gathered the
\* same candidate columns, every Date or Datetime column and every Utf8
\* column whose lower-cased name holds one of date, time, ts, at, day; and
\* both returned a column of the table or the empty text.
C13_SameCandidateGathering ==
    /\ \A t \in KeySet(simple_timestamps) \cap KeySet(timestamp_columns) :
           /\ Range(SimpleCandidates(Get(dataframes, t))) = C11_Candidates(t)
           /\ Range(PotentialCols(Get(dataframes, t))) = C11_Candidates(t)
    /\ C13_OutputContract

\* C13, amended: each policy returns the empty text or one of its own
\* candidates, which are columns of the table: for
\* detect_primary_event_timestamp the Date and Datetime columns and the Utf8
\* columns named with date, time, ts, at or day; for detect_timestamp_column
\* the Date and Datetime columns and, only when the table has none, the
\* columns of any storage type named with date, time, timestamp, created or
\* updated.
C13_OwnCandidatesOrEmpty ==
    /\ \A t \in KeySet(simple_timestamps) :
           Get(simple_timestamps, t) \in C13_SimpleCandidates(t) \cup {<<>>}
    /\ \A t \in KeySet(timestamp_columns) :
           Get(timestamp_columns, t) \in C11_Candidates(t) \cup {<<>>}
    /\ C13_OutputContract

\* both policies have run on a table where they gather differently:
\* detect_timestamp_column returned an Int64 column, which the other policy
\* does not look at
C13_Witness ==
    \E t \in KeySet(simple_timestamps) \cap KeySet(timestamp_columns) :
        /\ Get(simple_timestamps, t) # <<>>
        /\ Get(dataframes, t).dtype[Get(simple_timestamps, t)] = "Int64"
        /\ Get(simple_timestamps, t) \notin C11_Candidates(t)
        /\ C11_Candidates(t) # {}

-----------------------------------------------------------------------------
(* Properties of discover_node, under SpecDiscover                         *)

\* foreign-key inference is about to start, runs, or is over
C12_InferenceStarted == pc \in {"foreign_keys", "timestamp_columns", "done"}

C12_MapComplete == KeySet(primary_keys) = KeySet(dataframes)

\* C12: in a discovery run no foreign-key suggestion is computed before the
\* primary-key map has an entry for every table, and from the start of
\* foreign-key inference on the map is not modified.
C12_PrimaryKeysBeforeForeignKeys ==
    /\ [](foreign_keys # EmptyDict => C12_InferenceStarted)
    /\ [](C12_InferenceStarted => C12_MapComplete)
    /\ [][C12_InferenceStarted => primary_keys' = primary_keys]_vars

\* foreign-key inference is over, it found a column of one table in the
\* primary key of the other, and a table without candidates has its entry
C12_Witness ==
    /\ pc = "done"
    /\ KeySet(foreign_keys) = KeySet(dataframes)
    /\ \E t \in KeySet(foreign_keys) : Get(foreign_keys, t).suggested_fks # <<>>
    /\ \E t \in KeySet(primary_keys) :
           Get(initial_candidates, t) = <<>> /\ Get(primary_keys, t) = <<>>

\* the number of distinct values of a column, a null counted as one
C18_Distinct(t, c) == Cardinality({Cells(t, c)[i] : i \in DOMAIN Cells(t, c)})

\* some other table holds a column of the same name with strictly more
\* distinct values
C18_Flagged(t, c) ==
    \E o \in KeySet(dataframes) \ {t} :
        /\ c \in Range(Get(dataframes, o).columns)
        /\ C18_Distinct(o, c) > C18_Distinct(t, c)

\* C18: after the refinement step every table has an entry in the
\* primary-key map, and no entry holds a candidate flagged as a likely
\* foreign key, also when several or all candidates of the table are flagged.
C18_NoFlaggedCandidateKept ==
    C12_InferenceStarted =>
        /\ KeySet(primary_keys) = KeySet(dataframes)
        /\ \A t \in KeySet(primary_keys) :
               \A c \in Range(Get(primary_keys, t)) : ~C18_Flagged(t, c)

\* every table has an entry after the refinement step
C18_EveryTableHasEntry ==
    C12_InferenceStarted => KeySet(primary_keys) = KeySet(dataframes)

\* an entry holds a flagged candidate only if every candidate of the table
\* is flagged and there are several
C18_KeptOnlyWhenAllFlagged ==
    C12_InferenceStarted =>
        \A t \in KeySet(primary_keys) :
            (\E c \in Range(Get(primary_keys, t)) : C18_Flagged(t, c)) =>
                /\ Len(Get(initial_candidates, t)) > 1
                /\ \A c \in Range(Get(initial_candidates, t)) : C18_Flagged(t, c)

-----------------------------------------------------------------------------
(* Properties of the classification graph, under SpecGraph                 *)

\* the last result of the validator says the classifications are not valid
C16_LastResultInvalid == result # <<>> /\ ~result[1].is_valid

\* C16: whenever the result of the validator has is_valid = false, the
\* default result with an empty critique list included, validate_node leaves
\* a non-empty critique in the state and does not mark every table as
\* validated, so that should_continue routes back to classify or ends with
\* the critique, and the run is not finished as a success.
C16_InvalidNeverSuccess ==
    C16_LastResultInvalid =>
        /\ node = "should_continue" =>
              /\ state.critique # <<>>
              /\ KeySet(state.validated_classifications) # KeySet(dataframes)
        /\ ~FinishedAsSuccess

\* the same for results that are not valid and carry a critique
C16_CritiquedNeverSuccess ==
    (C16_LastResultInvalid /\ result[1].critiques # <<>>) =>
        /\ node = "should_continue" => state.critique # <<>>
        /\ ~FinishedAsSuccess

C17_Max(a, b) == IF a >= b THEN a ELSE b

\* classify_node has run at most max(1, max_retries) times: retries counts
\* its runs
C17_RunsBounded == state.retries <= C17_Max(1, state.max_retries)

\* retries changes only in classify_node, which adds exactly 1
C17_RetriesStep ==
    /\ state'.retries # state.retries => node = "classify"
    /\ (node = "classify" /\ node' = "validate") => state'.retries = state.retries + 1

\* once classify_node has run max_retries times should_continue returns END
C17_EndsAfterMax ==
    (node = "should_continue" /\ state.retries >= state.max_retries) => node' = "END"

\* classify_node hands no table to the decider that has ever been in
\* validated_classifications, and such a table keeps its classification
C17_NeverSentAgain ==
    (node = "classify" /\ node' = "validate") =>
        \A t \in KeySet(validated_history) :
            /\ t \notin Range(tables_to_classify')
            /\ Get(state'.classifications, t) = Get(validated_history, t)

\* classify_node hands the decider the tables that are not in
\* validated_classifications when it runs, and those that are keep their
\* classification in its result
C17_ValidatedNotSent ==
    (node = "classify" /\ node' = "validate") =>
        /\ Range(tables_to_classify') =
               KeySet(dataframes) \ KeySet(state.validated_classifications)
        /\ \A t \in KeySet(state.validated_classifications) :
               Get(state'.classifications, t) = Get(state.validated_classifications, t)

\* C17 as stated: for every sequence of validator outcomes the loop ends;
\* classify_node runs at most max(1, max_retries) times, retries growing by
\* exactly 1 on each run and never falling, after which should_continue
\* returns END; and a table once placed in validated_classifications is not
\* sent to the decider again and keeps its classification.
C17_TerminatesAndNeverSendsAgain ==
    /\ <>(node = "END")
    /\ []C17_RunsBounded
    /\ [][C17_RetriesStep /\ C17_EndsAfterMax /\ C17_NeverSentAgain]_vars

\* C17, amended: the loop ends, with the same bound on the runs of
\* classify_node; a table that is in validated_classifications when
\* classify_node runs is not sent to the decider in that run and keeps its
\* classification there (a later validation that critiques the table takes
\* it out of validated_classifications, and it is classified again).
C17_TerminatesAndSkipsValidated ==
    /\ <>(node = "END")
    /\ []C17_RunsBounded
    /\ [][C17_RetriesStep /\ C17_EndsAfterMax /\ C17_ValidatedNotSent]_vars

\* a run that ended after max_retries = 3 runs of classify_node, the last of
\* which classified a table again that had been validated before
C17_Witness ==
    /\ node = "END"
    /\ state.max_retries = DefaultMaxRetries
    /\ state.retries = state.max_retries
    /\ \E t \in Range(tables_to_classify) : Has(validated_history, t)

-----------------------------------------------------------------------------
(* The end-to-end scenario, under SpecE2E                                  *)

HighSuggestion(t, column, other_table, pk) ==
    \E i \in DOMAIN Get(foreign_keys, t).suggestions :
        LET sg == Get(foreign_keys, t).suggestions[i]
        IN  /\ sg.column = column
            /\ sg.references = other_table \o <<".">> \o pk
            /\ sg.confidence = "High"

\* C8: on orders(order_id, customer_id, order_date) and customers(customer_id,
\* name) the primary keys are [order_id] and [customer_id], the suggestions
\* for orders hold a High customer_id -> customers.customer_id, the timestamp
\* column of orders is order_date and that of customers is the empty text.
C8_EndToEnd ==
    /\ Has(primary_keys, N_orders) => Get(primary_keys, N_orders) = <<N_order_id>>
    /\ Has(primary_keys, N_customers) => Get(primary_keys, N_customers) = <<N_customer_id>>
    /\ Has(foreign_keys, N_orders) =>
          /\ Get(foreign_keys, N_orders).raised = ""
          /\ HighSuggestion(N_orders, N_customer_id, N_customers, N_customer_id)
    /\ Has(timestamp_columns, N_orders) => Get(timestamp_columns, N_orders) = N_order_date
    /\ Has(timestamp_columns, N_customers) => Get(timestamp_columns, N_customers) = <<>>

\* every result of the scenario is there, for an orders table whose first
\* column is a unique order_date
C8_Witness ==
    /\ KeySet(primary_keys) = {N_orders, N_customers}
    /\ KeySet(foreign_keys) = {N_orders, N_customers}
    /\ KeySet(timestamp_columns) = {N_orders, N_customers}
    /\ Get(dataframes, N_orders).columns[1] = N_order_date
    /\ Get(schema_reports, N_orders).report[1].is_pk_candidate
    /\ HighSuggestion(N_orders, N_customer_id, N_customers, N_customer_id)

====
